---- MODULE Spec2Model ----
(***************************************************************************)
(* Model of the solar-data pipeline: SolarDataLoader, SolarDataCleaner and *)
(* SolarDataExporter (src/src/data_loader.py, data_cleaner.py,             *)
(* data_exporter.py), and CrossCountrySynthesizer                          *)
(* (src/scripts/cross_country_synthesis.py).                               *)
(*                                                                         *)
(* Numbers.  The program computes on floats; the model computes on exact   *)
(* numbers.  A table cell is one of                                        *)
(*   [k |-> "nan"]            a null (NaN)                                 *)
(*   [k |-> "nat"]            a null of a date-time column (NaT)           *)
(*   [k |-> "num", p, q]      the rational p/q, q > 0, in lowest terms     *)
(*   [k |-> "bool", p]        a boolean (the Outlier_Flag column)          *)
(*   [k |-> "ts", p]          a parsed timestamp (p-th instant)            *)
(*   [k |-> "lo"|"hi", of, t] the bound mean(of) -/+ t*std(of) that clip() *)
(*                            wrote, std being the sample standard         *)
(*                            deviation of column `of`                     *)
(* Comparisons against mean +/- t*std are decided exactly in integers, by  *)
(* squaring; a bound written by clip() stays symbolic, and a column that   *)
(* contains such bounds is handled in the field Q(sqrt r) they span.       *)
(*                                                                         *)
(* pandas semantics are those of pandas 1.x/2.x (the repository's tests    *)
(* use freq='H'): df[col].fillna(v, inplace=True) writes through to df.    *)
(***************************************************************************)
EXTENDS Integers, Sequences, FiniteSets, TLC

\* ------------------------------------------------------------------ bounds
MaxRows == 3        \* rows of an input table: 1..MaxRows
MaxVal == 1         \* a non-null input measurement is in 0..MaxVal
MaxThreshold == 1   \* z_threshold ranges over 0..MaxThreshold
MaxSteps == 3       \* calls made on one cleaner/exporter in SpecSeq

\* ------------------------------------------------------ what a call returns
\* the kind of outcome, then the table object returned (an id of the heap) or
\* the value returned
NoRef == -1

TableRet(id) == [kind |-> "table", id |-> id, v |-> <<>>]

ValueRet(kind, v) == [kind |-> kind, id |-> NoRef, v |-> v]

\* --------------------------------------------------------- integer helpers
Abs(x) == IF x < 0 THEN -x ELSE x

Sgn(x) == IF x > 0 THEN 1 ELSE IF x < 0 THEN -1 ELSE 0

RECURSIVE Gcd(_, _)
Gcd(a, b) == IF b = 0 THEN a ELSE Gcd(b, a % b)

Lcm(a, b) == (a * b) \div Gcd(a, b)

RECURSIVE SumSeq(_)
SumSeq(s) == IF s = <<>> THEN 0 ELSE Head(s) + SumSeq(Tail(s))

RECURSIVE LcmSeq(_)
LcmSeq(s) == IF s = <<>> THEN 1 ELSE Lcm(Head(s), LcmSeq(Tail(s)))

Range(s) == {s[i] : i \in DOMAIN s}

\* -------------------------------------------------------------------- cells
NaN == [k |-> "nan", p |-> 0, q |-> 1]

Num(p, q) ==
    LET g == Gcd(Abs(p), q)
    IN  [k |-> "num", p |-> p \div g, q |-> q \div g]

Bool(b) == [k |-> "bool", p |-> IF b THEN 1 ELSE 0, q |-> 1]

Ts(i) == [k |-> "ts", p |-> i, q |-> 1]

\* the null of a datetime64 column
NaT == [k |-> "nat", p |-> 0, q |-> 1]

Lo(col, t) == [k |-> "lo", of |-> col, t |-> t]

Hi(col, t) == [k |-> "hi", of |-> col, t |-> t]

isna(c) == c.k \in {"nan", "nat"}

IsTerm(c) == c.k \in {"lo", "hi"}

dropna(col) == SelectSeq(col, LAMBDA c : ~isna(c))

\* p1/q1 < p2/q2
RatLess(a, b) == a.p * b.q < b.p * a.q

\* ---------------------------------------------------- exact column statistics
\* sign of P + R*sqrt(r), r >= 0
SignReduced(P1, R1, r) ==
    IF R1 = 0 \/ r = 0 THEN Sgn(P1)
    ELSE IF P1 = 0 THEN Sgn(R1)
    ELSE IF Sgn(P1) = Sgn(R1) THEN Sgn(P1)
    ELSE IF P1 * P1 > R1 * R1 * r THEN Sgn(P1)
    ELSE IF P1 * P1 < R1 * R1 * r THEN Sgn(R1)
    ELSE 0

Sign(P, R, r) ==
    IF P = 0 /\ R = 0 THEN 0
    ELSE SignReduced(P \div Gcd(Abs(P), Abs(R)), R \div Gcd(Abs(P), Abs(R)), r)

\* statistics of a column of rationals: n non-null values X[i]/D, their sum
\* S/D, and Q = sum of (n*X[i] - S)^2, so that
\*   mean = S/(n*D),  sum of squared deviations = Q/(n*D)^2
Stats0Of(X, n, D, S) ==
    [n |-> n, D |-> D, S |-> S,
     Q |-> SumSeq([i \in 1..n |-> (n * X[i] - S) * (n * X[i] - S)])]

Stats0Over(v, D) ==
    Stats0Of([i \in DOMAIN v |-> v[i].p * (D \div v[i].q)], Len(v), D,
             SumSeq([i \in DOMAIN v |-> v[i].p * (D \div v[i].q)]))

Stats0(col) ==
    Stats0Over(dropna(col), LcmSeq([i \in DOMAIN dropna(col) |-> dropna(col)[i].q]))

\* the column whose sample statistics the bounds inside col refer to
BaseOf(col) == SelectSeq(col, IsTerm)[1].of

\* Every non-null cell of col as a pair <<A, B>> standing for
\* (A + B*sqrt(r))/E.  A column of rationals has r = 0; a column holding
\* bounds mean(of) -/+ t*std(of) has, with (n, D, S, Q) = Stats0(of),
\*   E = n*D*(n-1),  r = Q*(n-1),  bound = (S*(n-1) -/+ t*sqrt(r))/E.
BasisOf(b) ==
    [E |-> b.n * b.D * (b.n - 1), r |-> b.Q * (b.n - 1), A |-> b.S * (b.n - 1)]

Basis(col) ==
    IF SelectSeq(col, IsTerm) = <<>>
    THEN [E |-> Stats0(col).D, r |-> 0, A |-> 0]
    ELSE BasisOf(Stats0(BaseOf(col)))

Coord(c, bs) ==
    IF c.k = "lo" THEN <<bs.A, -c.t>>
    ELSE IF c.k = "hi" THEN <<bs.A, c.t>>
    ELSE <<c.p * (bs.E \div c.q), 0>>

\* n, and the sum of squared deviations QA + QB*sqrt(r) in units 1/(n*E)^2
StatsOf(dA, dB, n, SA, SB, bs) ==
    [n |-> n, r |-> bs.r, SA |-> SA, SB |-> SB, bs |-> bs,
     QA |-> SumSeq([i \in 1..n |-> dA[i] * dA[i] + dB[i] * dB[i] * bs.r]),
     QB |-> SumSeq([i \in 1..n |-> 2 * dA[i] * dB[i]])]

StatsAbout(cs, n, SA, SB, bs) ==
    StatsOf([i \in 1..n |-> n * cs[i][1] - SA],
            [i \in 1..n |-> n * cs[i][2] - SB], n, SA, SB, bs)

StatsOver(cs, bs) ==
    StatsAbout(cs, Len(cs), SumSeq([i \in DOMAIN cs |-> cs[i][1]]),
               SumSeq([i \in DOMAIN cs |-> cs[i][2]]), bs)

StatsIn(v, bs) == StatsOver([i \in DOMAIN v |-> Coord(v[i], bs)], bs)

Stats(col) == StatsIn(dropna(col), Basis(col))

\* sign of x - mean, st the statistics of the column
DevSign(x, st) ==
    LET c == Coord(x, st.bs)
    IN  Sign(st.n * c[1] - st.SA, st.n * c[2] - st.SB, st.r)

\* sign of (x - mean)^2 - t^2 * var, var the variance of the column with the
\* given ddof (n - ddof > 0)
ExcessSign(x, st, t, ddof) ==
    LET c  == Coord(x, st.bs)
        dA == st.n * c[1] - st.SA
        dB == st.n * c[2] - st.SB
        m  == st.n - ddof
    IN  Sign((dA * dA + dB * dB * st.r) * m - t * t * st.QA,
             2 * dA * dB * m - t * t * st.QB, st.r)

\* Series.std() (ddof = 1) is NaN for fewer than two non-null values
StdIsNaN(st) == st.n < 2

\* x > mean + t*std and x < mean - t*std, std the sample standard deviation;
\* a comparison with NaN is false
AboveUpper(x, st, t) ==
    /\ ~StdIsNaN(st)
    /\ DevSign(x, st) = 1
    /\ ExcessSign(x, st, t, 1) = 1

BelowLower(x, st, t) ==
    /\ ~StdIsNaN(st)
    /\ DevSign(x, st) = -1
    /\ ExcessSign(x, st, t, 1) = 1

\* x <= mean + t*std, x >= mean - t*std
LeUpper(x, st, t) ==
    /\ ~StdIsNaN(st)
    /\ (DevSign(x, st) = 1 => ExcessSign(x, st, t, 1) <= 0)

GeLower(x, st, t) ==
    /\ ~StdIsNaN(st)
    /\ (DevSign(x, st) = -1 => ExcessSign(x, st, t, 1) <= 0)

\* ------------------------------------------------------- pandas on a column
RECURSIVE Insert(_, _)
Insert(x, s) ==
    IF s = <<>> THEN <<x>>
    ELSE IF RatLess(Head(s), x) THEN <<Head(s)>> \o Insert(x, Tail(s))
    ELSE <<x>> \o s

RECURSIVE sort_values(_)
sort_values(s) ==
    IF s = <<>> THEN <<>> ELSE Insert(Head(s), sort_values(Tail(s)))

RECURSIVE SetToSeq(_)
SetToSeq(S) ==
    IF S = {} THEN <<>>
    ELSE LET x == CHOOSE y \in S : TRUE IN <<x>> \o SetToSeq(S \ {x})

\* Series.median(): skips nulls; NaN for an all-null column
median(col) ==
    LET v == sort_values(dropna(col))
        n == Len(v)
        a == v[n \div 2]
        b == v[n \div 2 + 1]
    IN  IF n = 0 THEN NaN
        ELSE IF n % 2 = 1 THEN v[(n + 1) \div 2]
        ELSE Num(a.p * b.q + b.p * a.q, 2 * a.q * b.q)

\* Series.mean(): skips nulls; NaN for an all-null column
MeanOf(st) == IF st.n = 0 THEN NaN ELSE Num(st.S, st.n * st.D)

mean(col) == MeanOf(Stats0(col))

\* Series.mode(): the most frequent non-null values, in ascending order
mode(col) ==
    LET v      == dropna(col)
        cnt(x) == Cardinality({i \in DOMAIN v : v[i] = x})
    IN  sort_values(SetToSeq({x \in Range(v) :
                                \A y \in Range(v) : cnt(y) <= cnt(x)}))

fillna(col, fill_value) ==
    [i \in DOMAIN col |-> IF isna(col[i]) THEN fill_value ELSE col[i]]

\* a plausible slip: only the upper bound is applied
clip_upper_only(col, lower, upper) ==
    LET su == Stats(upper.of)
    IN  [i \in DOMAIN col |->
            IF isna(col[i]) THEN col[i]
            ELSE IF AboveUpper(col[i], su, upper.t) THEN upper
            ELSE col[i]]

\* Series.clip(lower, upper) for lower = mean(of) - t*std(of) and
\* upper = mean(of) + t*std(of): nulls stay null, a NaN bound does not clip
clip(col, lower, upper) ==
    LET sl == Stats(lower.of)
        su == Stats(upper.of)
    IN  [i \in DOMAIN col |->
            IF isna(col[i]) THEN col[i]
            ELSE IF BelowLower(col[i], sl, lower.t) THEN lower
            ELSE IF AboveUpper(col[i], su, upper.t) THEN upper
            ELSE col[i]]

\* a plausible slip: the test |x - mean| >= t*std, written without a division
zscore_mask_ge(col, z_threshold) ==
    LET st == Stats(col)
    IN  [i \in DOMAIN col |->
            /\ \A j \in DOMAIN col : ~isna(col[j])
            /\ ExcessSign(col[i], st, z_threshold, 0) >= 0]

\* np.abs(stats.zscore(col)) > z_threshold.  zscore uses the population
\* standard deviation (ddof = 0) and propagates NaN: one null in col makes
\* the mean, and so every score, NaN; a zero deviation gives 0/0 = NaN.
\* A comparison with NaN is False.
zscore_mask(col, z_threshold) ==
    LET st == Stats(col)
    IN  [i \in DOMAIN col |->
            /\ \A j \in DOMAIN col : ~isna(col[j])
            /\ st.QA # 0
            /\ ExcessSign(col[i], st, z_threshold, 0) = 1]

\* ------------------------------------------------------------------ tables
\* A DataFrame: its column names in order, its number of rows, and one
\* sequence of cells per column.
Columns == <<"Timestamp", "GHI", "DNI">>

Measured == <<"GHI", "DNI">>

FlagCol == "Outlier_Flag"

HasCol(T, name) == name \in Range(T.cols)

\* df[name] = values: replaces the column, or appends it
SetCol(T, name, values) ==
    [cols |-> IF HasCol(T, name) THEN T.cols ELSE Append(T.cols, name),
     n    |-> T.n,
     c    |-> [x \in Range(T.cols) \cup {name} |->
                 IF x = name THEN values ELSE T.c[x]]]

\* df.drop(columns=names)
DropCols(T, names) ==
    [cols |-> SelectSeq(T.cols, LAMBDA x : x \notin names),
     n    |-> T.n,
     c    |-> [x \in Range(T.cols) \ names |-> T.c[x]]]

\* df.select_dtypes(include=[np.number]).columns: bool and datetime columns
\* are not numeric
IsNumeric(T, name) ==
    \A i \in 1..T.n : T.c[name][i].k \in {"num", "nan", "lo", "hi"}

select_dtypes_number(T) == SelectSeq(T.cols, LAMBDA x : IsNumeric(T, x))

CountNa(col) == Len(SelectSeq(col, isna))

CountTrue(col) == Len(SelectSeq(col, LAMBDA c : c = Bool(TRUE)))

\* an optional argument
None == [some |-> FALSE, v |-> <<>>]

Some(v) == [some |-> TRUE, v |-> v]

\* a Python dict: a function from its keys
EmptyDict == [x \in {} |-> 0]

DictSet(d, key, value) ==
    [x \in DOMAIN d \cup {key} |-> IF x = key THEN value ELSE d[x]]

\* ------------------------------------------------------------------- state
VARIABLES
    heap,            \* the DataFrame objects: object id -> table
    input,           \* the table as the caller built it (never assigned again)
    df,              \* SolarDataCleaner.df: an object id
    df_cleaned,      \* SolarDataCleaner.df_cleaned: an object id or NoRef
    outlier_flags,   \* SolarDataCleaner.outlier_flags: column -> statistics
    cleaning_stats,  \* SolarDataCleaner.cleaning_stats: key -> entry
    exp_df,          \* SolarDataExporter.df: an object id or NoRef
    written,         \* the table export() wrote, or NoTable
    ret,             \* what the last call returned to the caller
    calls,           \* the calls made so far: their names and arguments
    pre,             \* the callee's table when the last call started
    again,           \* cap_outliers applied to a cap_outliers result
    fs,              \* the file at SolarDataLoader.data_path
    ldr_df,          \* SolarDataLoader.df: a table or NoTable
    disk,            \* the cleaned files: path -> file
    countries_data,  \* CrossCountrySynthesizer.countries_data: name -> table
    combined_data    \* CrossCountrySynthesizer.combined_data, or NoTable

\* the synthesizer and the files it reads
agg == <<disk, countries_data, combined_data>>

vars == <<heap, input, df, df_cleaned, outlier_flags, cleaning_stats, exp_df,
          written, ret, calls, pre, again, fs, ldr_df, agg>>

\* --------------------------------------------------------------- the heap
Ids == 0..5

CallerId == 0

NoTable == [cols |-> <<>>, n |-> -1, c |-> <<>>]

\* the objects some variable of the caller, the cleaner or the exporter holds
Live(w) ==
    ({CallerId, w.df, w.df_cleaned, w.exp_df}
        \cup (IF w.ret.kind = "table" THEN {w.ret.id} ELSE {})) \ {NoRef}

Alloc(h, T, live) ==
    LET id == CHOOSE i \in Ids \ live : \A j \in Ids \ live : i <= j
    IN  [h |-> [h EXCEPT ![id] = T], id |-> id]

\* a plausible slip: no copy is taken, the result is the object itself
DfCopyAlias(h, src, live) == [h |-> h, id |-> src]

\* DataFrame.copy(): a new object with the same content
DfCopy(h, src, live) == Alloc(h, h[src], live)

\* objects no variable holds any more are dropped
Collect(w) ==
    [w EXCEPT !.heap = [i \in Ids |-> IF i \in Live(w) THEN w.heap[i]
                                      ELSE NoTable]]

World ==
    [heap |-> heap, df |-> df, df_cleaned |-> df_cleaned,
     outlier_flags |-> outlier_flags, cleaning_stats |-> cleaning_stats,
     exp_df |-> exp_df, ret |-> ret]

Becomes(w0) ==
    LET w == Collect(w0)
    IN  /\ heap' = w.heap
        /\ df' = w.df
        /\ df_cleaned' = w.df_cleaned
        /\ outlier_flags' = w.outlier_flags
        /\ cleaning_stats' = w.cleaning_stats
        /\ exp_df' = w.exp_df
        /\ ret' = w.ret

\* -------------------------------------------------------- SolarDataCleaner
DefaultThresholdPct == 5

DefaultTempColumns == <<"Hour", "Month", "Day", "WD_bin", "Outlier_Flag">>

\* SolarDataCleaner.__init__(df), df the object src
cleaner_init(w, src) ==
    LET cp == DfCopy(w.heap, src, Live(w))
    IN  [w EXCEPT !.heap = cp.h, !.df = cp.id, !.df_cleaned = NoRef,
                  !.outlier_flags = EmptyDict, !.cleaning_stats = EmptyDict]

\* detect_missing_values(threshold), threshold given in percent
detect_missing_values(T, threshold_pct) ==
    LET missing     == [x \in Range(T.cols) |-> CountNa(T.c[x])]
        missing_pct == [x \in Range(T.cols) |-> Num(missing[x] * 100, T.n)]
        high        == {x \in Range(T.cols) :
                           missing[x] * 100 > threshold_pct * T.n}
    IN  [total_missing |->
             SumSeq([i \in 1..Len(T.cols) |-> missing[T.cols[i]]]),
         missing_by_column |-> missing,
         missing_percentage |-> missing_pct,
         high_missing_columns |-> [x \in high |-> missing_pct[x]]]

fill_value(col, method) ==
    IF method = "median" THEN median(col)
    ELSE IF method = "mean" THEN mean(col)
    ELSE IF Len(mode(col)) > 0 THEN mode(col)[1] ELSE Num(0, 1)

\* the column loop of impute_missing_values
RECURSIVE ImputeLoop(_, _, _)
ImputeLoop(T, columns, method) ==
    IF columns = <<>> THEN T
    ELSE LET col == Head(columns)
         IN  IF ~HasCol(T, col) THEN ImputeLoop(T, Tail(columns), method)
             ELSE ImputeLoop(
                    SetCol(T, col, fillna(T.c[col], fill_value(T.c[col], method))),
                    Tail(columns), method)

\* a plausible slip: the fill is applied to every numeric column
impute_missing_values_all(w, columns, method) ==
    LET cp == DfCopy(w.heap, w.df, Live(w))
    IN  [w EXCEPT !.heap = [cp.h EXCEPT ![cp.id] =
                      ImputeLoop(@, select_dtypes_number(w.heap[w.df]), method)],
                  !.df = cp.id,
                  !.ret = TableRet(cp.id)]

impute_missing_values(w, columns, method) ==
    LET cols == IF columns.some THEN columns.v
                ELSE select_dtypes_number(w.heap[w.df])
        cp   == DfCopy(w.heap, w.df, Live(w))
    IN  [w EXCEPT !.heap = [cp.h EXCEPT ![cp.id] = ImputeLoop(@, cols, method)],
                  !.df = cp.id,
                  !.ret = TableRet(cp.id)]

\* a plausible slip: each column's mask replaces the flags of the columns
\* before it
RECURSIVE DetectLoopOverwriting(_, _, _, _)
DetectLoopOverwriting(T, columns, z_threshold, flags) ==
    IF columns = <<>> THEN [T |-> T, flags |-> flags]
    ELSE IF ~HasCol(T, Head(columns))
    THEN DetectLoopOverwriting(T, Tail(columns), z_threshold, flags)
    ELSE DetectLoopOverwriting(
           SetCol(T, FlagCol,
                  [i \in 1..T.n |->
                     Bool(zscore_mask(T.c[Head(columns)], z_threshold)[i])]),
           Tail(columns), z_threshold,
           DictSet(flags, Head(columns),
                   [count |-> Cardinality({i \in 1..T.n :
                       zscore_mask(T.c[Head(columns)], z_threshold)[i]}),
                    percentage |-> Num(100 * Cardinality({i \in 1..T.n :
                       zscore_mask(T.c[Head(columns)], z_threshold)[i]}), T.n)]))

\* the column loop of detect_outliers
RECURSIVE DetectLoop(_, _, _, _)
DetectLoop(T, columns, z_threshold, flags) ==
    IF columns = <<>> THEN [T |-> T, flags |-> flags]
    ELSE LET col == Head(columns)
         IN  IF ~HasCol(T, col)
             THEN DetectLoop(T, Tail(columns), z_threshold, flags)
             ELSE LET outlier_mask == zscore_mask(T.c[col], z_threshold)
                      num_outliers ==
                          Cardinality({i \in 1..T.n : outlier_mask[i]})
                  IN  DetectLoop(
                        SetCol(T, FlagCol,
                               [i \in 1..T.n |-> IF outlier_mask[i]
                                                 THEN Bool(TRUE)
                                                 ELSE T.c[FlagCol][i]]),
                        Tail(columns), z_threshold,
                        DictSet(flags, col,
                                [count |-> num_outliers,
                                 percentage |-> Num(num_outliers * 100, T.n)]))

\* a plausible slip: detection also files its statistics in the report
detect_outliers_reporting(w, columns, z_threshold) ==
    LET cp  == DfCopy(w.heap, w.df, Live(w))
        T0  == SetCol(cp.h[cp.id], FlagCol,
                      [i \in 1..cp.h[cp.id].n |-> Bool(FALSE)])
        res == DetectLoop(T0, columns, z_threshold, w.outlier_flags)
    IN  [w EXCEPT !.heap = [cp.h EXCEPT ![cp.id] = res.T],
                  !.outlier_flags = res.flags,
                  !.cleaning_stats = DictSet(@, "outliers", "outlier_flags"),
                  !.df = cp.id,
                  !.ret = TableRet(cp.id)]

detect_outliers(w, columns, z_threshold) ==
    LET cp  == DfCopy(w.heap, w.df, Live(w))
        T0  == SetCol(cp.h[cp.id], FlagCol,
                      [i \in 1..cp.h[cp.id].n |-> Bool(FALSE)])
        res == DetectLoop(T0, columns, z_threshold, w.outlier_flags)
    IN  [w EXCEPT !.heap = [cp.h EXCEPT ![cp.id] = res.T],
                  !.outlier_flags = res.flags,
                  !.df = cp.id,
                  !.ret = TableRet(cp.id)]

\* a plausible slip: only the rows that detect_outliers flagged are capped
RECURSIVE CapLoopFlagged(_, _, _)
CapLoopFlagged(T, columns, z_threshold) ==
    IF columns = <<>> THEN T
    ELSE IF ~HasCol(T, Head(columns))
    THEN CapLoopFlagged(T, Tail(columns), z_threshold)
    ELSE CapLoopFlagged(
           SetCol(T, Head(columns),
                  [i \in 1..T.n |->
                     IF HasCol(T, FlagCol) /\ T.c[FlagCol][i] = Bool(TRUE)
                     THEN clip(T.c[Head(columns)],
                               Lo(T.c[Head(columns)], z_threshold),
                               Hi(T.c[Head(columns)], z_threshold))[i]
                     ELSE T.c[Head(columns)][i]]),
           Tail(columns), z_threshold)

\* the column loop of cap_outliers: lower_bound = mean - z_threshold*std,
\* upper_bound = mean + z_threshold*std, both of the column as it is
RECURSIVE CapLoop(_, _, _)
CapLoop(T, columns, z_threshold) ==
    IF columns = <<>> THEN T
    ELSE LET col == Head(columns)
         IN  IF ~HasCol(T, col) THEN CapLoop(T, Tail(columns), z_threshold)
             ELSE CapLoop(
                    SetCol(T, col, clip(T.c[col], Lo(T.c[col], z_threshold),
                                                  Hi(T.c[col], z_threshold))),
                    Tail(columns), z_threshold)

\* a plausible slip: the capped table also becomes the working table
cap_outliers_in_place(w, columns, z_threshold) ==
    LET cp == DfCopy(w.heap, w.df, Live(w))
    IN  [w EXCEPT !.heap = [cp.h EXCEPT ![cp.id] =
                               CapLoop(@, columns, z_threshold)],
                  !.df = cp.id,
                  !.df_cleaned = cp.id,
                  !.ret = TableRet(cp.id)]
cap_outliers(w, columns, z_threshold) ==
    LET cp == DfCopy(w.heap, w.df, Live(w))
    IN  [w EXCEPT !.heap = [cp.h EXCEPT ![cp.id] =
                               CapLoop(@, columns, z_threshold)],
                  !.df_cleaned = cp.id,
                  !.ret = TableRet(cp.id)]

\* a plausible slip: the missing values are counted after the imputation
clean_report_missing_after(missing_stats, w4) ==
    [w4 EXCEPT !.cleaning_stats =
                   DictSet(DictSet(DictSet(@, "missing_values",
                                           detect_missing_values(w4.heap[w4.df],
                                                                 DefaultThresholdPct)),
                                   "outliers", "outlier_flags"),
                           "total_outliers",
                           IF HasCol(w4.heap[w4.df], FlagCol)
                           THEN CountTrue(w4.heap[w4.df].c[FlagCol]) ELSE 0),
               !.ret = TableRet(IF w4.df_cleaned # NoRef
                                THEN w4.df_cleaned ELSE w4.df)]

\* the entries of cleaning_stats and the return value of clean(), w4 the
\* cleaner after the last step.  cleaning_stats['outliers'] is the dict
\* outlier_flags itself, not a copy: the entry is stored as the name of
\* that dict
clean_report(missing_stats, w4) ==
    [w4 EXCEPT !.cleaning_stats =
                   DictSet(DictSet(DictSet(@, "missing_values", missing_stats),
                                   "outliers", "outlier_flags"),
                           "total_outliers",
                           IF HasCol(w4.heap[w4.df], FlagCol)
                           THEN CountTrue(w4.heap[w4.df].c[FlagCol]) ELSE 0),
               !.ret = TableRet(IF w4.df_cleaned # NoRef
                                THEN w4.df_cleaned ELSE w4.df)]

\* the steps of clean() on the columns it has settled on
clean_steps(w, numeric_columns, outlier_columns, imputation_method, z_threshold) ==
    clean_report(
        detect_missing_values(w.heap[w.df], DefaultThresholdPct),
        cap_outliers(
            detect_outliers(
                impute_missing_values(w, Some(numeric_columns), imputation_method),
                outlier_columns, z_threshold),
            outlier_columns, z_threshold))

\* outlier_columns defaults to numeric_columns
clean_columns(w, numeric_columns, outlier_columns, imputation_method, z_threshold) ==
    clean_steps(w, numeric_columns,
                IF outlier_columns.some THEN outlier_columns.v
                ELSE numeric_columns,
                imputation_method, z_threshold)

\* numeric_columns defaults to the numeric columns of the working table
clean(w, numeric_columns, outlier_columns, imputation_method, z_threshold) ==
    clean_columns(w,
                  IF numeric_columns.some THEN numeric_columns.v
                  ELSE select_dtypes_number(w.heap[w.df]),
                  outlier_columns, imputation_method, z_threshold)

\* what a holder of the dict get_cleaning_report() returned reads in it
get_cleaning_report(stats, flags) ==
    [x \in DOMAIN stats |-> IF x = "outliers" THEN flags ELSE stats[x]]

\* ------------------------------------------------------- SolarDataExporter
\* SolarDataExporter.__init__(df), df the object src
exporter_init(w, src) ==
    LET cp == DfCopy(w.heap, src, Live(w))
    IN  [w EXCEPT !.heap = cp.h, !.exp_df = cp.id]

\* a plausible slip: the names are dropped without the filter of line 51, and
\* drop() raises KeyError for a name the table does not have
remove_temp_columns_unfiltered(w, temp_columns) ==
    LET temp == IF temp_columns.some THEN temp_columns.v
                ELSE DefaultTempColumns
        new  == Alloc(w.heap, DropCols(w.heap[w.exp_df], Range(temp)),
                      Live(w))
    IN  IF \A x \in Range(temp) : HasCol(w.heap[w.exp_df], x)
        THEN [w EXCEPT !.heap = new.h, !.exp_df = new.id,
                       !.ret = TableRet(new.id)]
        ELSE [w EXCEPT !.ret = ValueRet("error", "KeyError")]

remove_temp_columns(w, temp_columns) ==
    LET temp == IF temp_columns.some THEN temp_columns.v
                ELSE DefaultTempColumns
        columns_to_remove ==
            {x \in Range(temp) : HasCol(w.heap[w.exp_df], x)}
        new  == Alloc(w.heap, DropCols(w.heap[w.exp_df], columns_to_remove),
                      Live(w))
    IN  [w EXCEPT !.heap = new.h, !.exp_df = new.id,
                  !.ret = TableRet(new.id)]

\* a plausible slip: the table is written as it is, transient columns included
export_as_is(w, remove_temp, temp_columns) == w

\* export(output_path, remove_temp, temp_columns): the table to_csv writes
export(w, remove_temp, temp_columns) ==
    IF remove_temp THEN remove_temp_columns(w, temp_columns) ELSE w

\* --------------------------------------------------------- SolarDataLoader
\* A file cell of the timestamp column is a parsable date (p >= 1), an
\* unparsable text (p = 0) or empty (a null).
Str(i) == [k |-> "str", p |-> i, q |-> 1]

NoFile == [exists |-> FALSE, T |-> NoTable]

\* pd.read_csv(data_path)
read_csv(file) == file.T

Parsable(c) == isna(c) \/ (c.k = "str" /\ c.p >= 1)

\* pd.to_datetime(column): an empty cell becomes NaT, a null
to_datetime(col) ==
    [i \in DOMAIN col |-> IF isna(col[i]) THEN NaT ELSE Ts(col[i].p)]

\* a plausible slip: a missing timestamp column is let through
load_lenient(file, old_df, timestamp_col) ==
    IF ~file.exists
    THEN [df |-> old_df, ret |-> ValueRet("error", "FileNotFoundError")]
    ELSE LET raw == read_csv(file)
         IN  IF HasCol(raw, timestamp_col)
                /\ ~(\A i \in 1..raw.n : Parsable(raw.c[timestamp_col][i]))
             THEN [df |-> raw,
                   ret |-> ValueRet("error", "ValueError: unparsable")]
             ELSE LET T == IF HasCol(raw, timestamp_col)
                           THEN SetCol(raw, timestamp_col,
                                       to_datetime(raw.c[timestamp_col]))
                           ELSE raw
                  IN  [df |-> T, ret |-> ValueRet("loaded", T)]

\* load(timestamp_col): the loader's df afterwards, and the outcome
load(file, old_df, timestamp_col) ==
    IF ~file.exists
    THEN [df |-> old_df, ret |-> ValueRet("error", "FileNotFoundError")]
    ELSE LET raw == read_csv(file)
         IN  IF HasCol(raw, timestamp_col)
             THEN IF \A i \in 1..raw.n : Parsable(raw.c[timestamp_col][i])
                  THEN LET T == SetCol(raw, timestamp_col,
                                       to_datetime(raw.c[timestamp_col]))
                       IN  [df |-> T, ret |-> ValueRet("loaded", T)]
                  ELSE [df |-> raw,
                        ret |-> ValueRet("error", "ValueError: unparsable")]
             ELSE [df |-> raw,
                   ret |-> ValueRet("error",
                                    "ValueError: Timestamp column not found")]

\* Series.min() and Series.max() of a column: nulls are skipped; a column of
\* nulls only gives a null; a column of texts and nulls (dtype object) cannot
\* be ordered and the call raises TypeError
Orderable(col) == (\A i \in DOMAIN col : col[i].k # "str") \/ dropna(col) = col

min_max(col) ==
    LET vals == Range(dropna(col))
    IN  IF vals = {}
        THEN <<col[1], col[1]>>
        ELSE <<CHOOSE c \in vals : \A d \in vals : c.p <= d.p,
               CHOOSE c \in vals : \A d \in vals : c.p >= d.p>>

\* get_info(): the dictionary it returns, without the estimate of the size in
\* memory, or the error it raises
get_info(T) ==
    IF T = NoTable
    THEN ValueRet("error", "ValueError: Data must be loaded first")
    ELSE IF HasCol(T, "Timestamp") /\ ~Orderable(T.c["Timestamp"])
    THEN ValueRet("error", "TypeError")
    ELSE ValueRet("info",
                  [shape |-> <<T.n, Len(T.cols)>>,
                   columns |-> T.cols,
                   numeric_columns |-> select_dtypes_number(T),
                   date_range |-> IF HasCol(T, "Timestamp")
                                  THEN Some(min_max(T.c["Timestamp"]))
                                  ELSE None])

\* ------------------------------------------------- CrossCountrySynthesizer
\* a text cell holding a country name
Tag(name) == [k |-> "tag", p |-> name, q |-> 1]

\* a plausible slip: a Country column the file already has is kept
tag_country_if_absent(T, country_name) ==
    IF HasCol(T, "Country") THEN T
    ELSE SetCol(T, "Country", [i \in 1..T.n |-> Tag(country_name)])

\* df['Country'] = country_name
tag_country(T, country_name) ==
    SetCol(T, "Country", [i \in 1..T.n |-> Tag(country_name)])

\* the rest of load_country_data, df being the table read and tagged
store_country(df0, data, country_name) ==
    IF ~HasCol(df0, "Timestamp")
    THEN [countries_data |-> DictSet(data, country_name, df0),
          ret |-> ValueRet("loaded", df0)]
    ELSE IF \A i \in 1..df0.n : Parsable(df0.c["Timestamp"][i])
    THEN [countries_data |->
             DictSet(data, country_name,
                     SetCol(df0, "Timestamp", to_datetime(df0.c["Timestamp"]))),
          ret |-> ValueRet("loaded",
                           SetCol(df0, "Timestamp",
                                  to_datetime(df0.c["Timestamp"])))]
    ELSE [countries_data |-> data,
          ret |-> ValueRet("error", "ValueError: unparsable")]

\* load_country_data(country_name, file_path): the dictionary afterwards and
\* the table returned or the error raised
load_country_data(files, data, country_name, file_path) ==
    IF ~files[file_path].exists
    THEN [countries_data |-> data, ret |-> ValueRet("error", "FileNotFoundError")]
    ELSE store_country(tag_country(read_csv(files[file_path]), country_name),
                       data, country_name)

\* a column of T in a concatenation, filled with nulls where T lacks it
ColumnOrNulls(T, x) ==
    IF HasCol(T, x) THEN T.c[x]
    ELSE [i \in 1..T.n |-> IF x = "Timestamp" THEN NaT ELSE NaN]

\* pd.concat(dataframes, ignore_index=True) of one or more tables
RECURSIVE concat(_)
concat(dataframes) ==
    IF Len(dataframes) = 1 THEN dataframes[1]
    ELSE LET A == dataframes[1]
             B == concat(Tail(dataframes))
         IN  [cols |-> A.cols \o SelectSeq(B.cols, LAMBDA x : ~HasCol(A, x)),
              n    |-> A.n + B.n,
              c    |-> [x \in Range(A.cols) \cup Range(B.cols) |->
                          ColumnOrNulls(A, x) \o ColumnOrNulls(B, x)]]

\* the loop of aggregate_all_countries over the items of file_mapping, a
\* sequence of <<country, file_path>>; it ends at the first error
RECURSIVE AggregateLoop(_, _, _, _)
AggregateLoop(files, data, dataframes, file_mapping) ==
    IF file_mapping = <<>>
    THEN [countries_data |-> data, dataframes |-> dataframes, error |-> ""]
    ELSE LET r == load_country_data(files, data, Head(file_mapping)[1],
                                    Head(file_mapping)[2])
         IN  IF r.ret.kind = "error"
             THEN [countries_data |-> r.countries_data,
                   dataframes |-> dataframes, error |-> r.ret.v]
             ELSE AggregateLoop(files, r.countries_data,
                                Append(dataframes, r.ret.v), Tail(file_mapping))

\* a plausible slip: what was loaded before the error is combined and kept
aggregate_partial(l, combined) ==
    IF l.dataframes = <<>>
    THEN [countries_data |-> l.countries_data, combined_data |-> combined,
          ret |-> ValueRet("error", IF l.error = ""
                                    THEN "ValueError: No objects to concatenate"
                                    ELSE l.error)]
    ELSE [countries_data |-> l.countries_data,
          combined_data |-> concat(l.dataframes),
          ret |-> IF l.error = "" THEN ValueRet("loaded", concat(l.dataframes))
                  ELSE ValueRet("error", l.error)]

\* aggregate_all_countries after its loop, l being what the loop left
aggregate_result(l, combined) ==
    IF l.error # ""
    THEN [countries_data |-> l.countries_data, combined_data |-> combined,
          ret |-> ValueRet("error", l.error)]
    ELSE IF l.dataframes = <<>>
    THEN [countries_data |-> l.countries_data, combined_data |-> combined,
          ret |-> ValueRet("error", "ValueError: No objects to concatenate")]
    ELSE [countries_data |-> l.countries_data,
          combined_data |-> concat(l.dataframes),
          ret |-> ValueRet("loaded", concat(l.dataframes))]

aggregate_all_countries(files, data, combined, file_mapping) ==
    aggregate_result(AggregateLoop(files, data, <<>>, file_mapping), combined)

\* Series.unique(): the values in the order of their first appearance
RECURSIVE unique(_)
unique(col) ==
    IF col = <<>> THEN <<>>
    ELSE <<Head(col)>> \o unique(SelectSeq(Tail(col), LAMBDA c : c # Head(col)))

\* Series.std(): the square root of the sample variance, NaN for fewer than
\* two non-null values
StdOf(st) ==
    IF st.n < 2 THEN NaN
    ELSE [Num(st.Q, st.n * st.n * st.D * st.D * (st.n - 1)) EXCEPT !.k = "sqrt"]

\* Series.min() and Series.max() of a numeric column, v its sorted values
EndsOf(v) == IF v = <<>> THEN <<NaN, NaN>> ELSE <<v[1], v[Len(v)]>>

\* the five statistics of one column of one country
column_stats(col) ==
    [mean |-> mean(col), median |-> median(col), std |-> StdOf(Stats0(col)),
     min |-> EndsOf(sort_values(dropna(col)))[1],
     max |-> EndsOf(sort_values(dropna(col)))[2]]

\* country_df[x]: the cells of column x in the rows that carry the country
country_column(T, x, country) ==
    LET rows == SelectSeq([i \in 1..T.n |-> i],
                          LAMBDA i : T.c["Country"][i] = country)
    IN  [j \in DOMAIN rows |-> T.c[x][rows[j]]]

\* one dictionary of summary_stats
summary_row(T, country, columns) ==
    [Country |-> country.p,
     stats |-> [x \in {y \in Range(columns) : HasCol(T, y)} |->
                  column_stats(country_column(T, x, country))]]

\* get_summary_statistics(columns): the rows of the table returned, or the
\* error raised
get_summary_statistics(combined, columns) ==
    IF combined = NoTable
    THEN ValueRet("error", "ValueError: No data loaded")
    ELSE ValueRet("summary",
                  [k \in 1..Len(unique(combined.c["Country"])) |->
                     summary_row(combined, unique(combined.c["Country"])[k],
                                 columns)])

\* ------------------------------------------------------------------ inputs
Cells == {NaN} \cup {Num(v, 1) : v \in 0..MaxVal}

MkTable(n, ghi, dni) ==
    [cols |-> Columns, n |-> n,
     c |-> [x \in Range(Columns) |->
              IF x = "Timestamp" THEN [i \in 1..n |-> Ts(i)]
              ELSE IF x = "GHI" THEN ghi ELSE dni]]

\* a second column holds one value, or nothing, in each row
FewCells == {NaN, Num(MaxVal, 1)}

Reverse(col) == [i \in DOMAIN col |-> col[Len(col) + 1 - i]]

\* nulls first, then the numbers in ascending order
Ascending(col) ==
    \A i \in 1..(Len(col) - 1) :
       isna(col[i]) \/ (~isna(col[i + 1]) /\ col[i].p <= col[i + 1].p)

AscendingColumns(n) == {x \in [1..n -> Cells] : Ascending(x)}

\* the tables of Spec: GHI is any ascending column, DNI any column of one
\* value, or GHI in descending order
InputTables ==
    UNION {{MkTable(n, g, d) : g \in AscendingColumns(n), d \in [1..n -> FewCells]}
              \cup {MkTable(n, g, Reverse(g)) : g \in AscendingColumns(n)} :
             n \in 1..MaxRows}

ColumnLists ==
    {<<"GHI">>, <<"DNI">>, <<"GHI", "DNI">>, <<"DNI", "GHI">>, <<"Tamb", "GHI">>}

Methods == {"median", "mean", "mode"}

Thresholds == 0..MaxThreshold

OptColumns == {None} \cup {Some(l) : l \in ColumnLists}

\* the tables of SpecSeq: GHI is any ascending column, DNI mirrors it, which
\* leaves room for one more row
SeqTables ==
    UNION {{MkTable(n, g, Reverse(g)) : g \in AscendingColumns(n)} :
             n \in 1..(MaxRows + 1)}

\* the files of SpecLoader
TsCells == {NaN, Str(0), Str(1), Str(2)}

Headers == {<<"Timestamp", "GHI">>, <<"time", "GHI">>, <<"GHI">>}

MkFile(header, n, ts, ghi) ==
    [exists |-> TRUE,
     T |-> [cols |-> header, n |-> n,
            c |-> [x \in Range(header) |-> IF x = "GHI" THEN ghi ELSE ts]]]

Files ==
    {NoFile} \cup
    UNION {{MkFile(h, n, ts, g) :
              h \in Headers, ts \in [1..n -> TsCells], g \in [1..n -> FewCells]} :
             n \in 1..MaxRows}

\* the tables an exporter is built on: the measured columns, with or without
\* an Hour column and an Outlier_Flag column (here: the rows of largest GHI)
WithTemp(T, extra) ==
    [cols |-> T.cols \o SelectSeq(<<"Hour", FlagCol>>, LAMBDA x : x \in extra),
     n    |-> T.n,
     c    |-> [x \in Range(T.cols) \cup extra |->
                 IF x = "Hour" THEN [i \in 1..T.n |-> Num(0, 1)]
                 ELSE IF x = FlagCol
                 THEN [i \in 1..T.n |-> Bool(T.c["GHI"][i] = Num(MaxVal, 1))]
                 ELSE T.c[x]]]

ExportTables ==
    UNION {{WithTemp(MkTable(n, g, Reverse(g)), e) :
              g \in AscendingColumns(n), e \in SUBSET {"Hour", FlagCol}} :
             n \in 1..MaxRows}

TempLists ==
    {None, Some(<<>>), Some(<<"Hour", "Tamb">>), Some(<<"GHI", FlagCol>>)}

\* the cleaned files of SpecAgg: a.csv is missing or holds any ascending GHI
\* column, alone, beside a Country column or beside a Timestamp column whose
\* texts are all dates or all unparsable; b.csv is missing or holds one row
AggHeaders == {<<"GHI">>, <<"Country", "GHI">>, <<"Timestamp", "GHI">>}

MkAggFile(header, n, ghi, date) ==
    [exists |-> TRUE,
     T |-> [cols |-> header, n |-> n,
            c |-> [x \in Range(header) |->
                     IF x = "GHI" THEN ghi
                     ELSE IF x = "Country" THEN [i \in 1..n |-> Tag("X")]
                     ELSE [i \in 1..n |-> Str(IF date THEN i ELSE 0)]]]]

AggFiles ==
    {NoFile} \cup
    UNION {{MkAggFile(h, n, g, d) :
              h \in AggHeaders, g \in AscendingColumns(n),
              d \in BOOLEAN} :
             n \in 1..MaxRows}

Disks ==
    {[x \in {"a.csv", "b.csv"} |-> IF x = "a.csv" THEN fa ELSE fb] :
       fa \in AggFiles,
       fb \in {NoFile} \cup {MkAggFile(<<"GHI">>, 1, <<c>>, TRUE) : c \in Cells}}

\* the mappings given to aggregate_all_countries, in the order of their items
FileMappings ==
    {<<<<"A", "a.csv">>, <<"B", "b.csv">>>>,
     <<<<"B", "b.csv">>, <<"A", "a.csv">>>>,
     <<<<"B", "a.csv">>>>,
     <<>>}

Call(op, cols, ocols, method, t) ==
    [op |-> op, cols |-> cols, ocols |-> ocols, method |-> method, t |-> t]

NoCall == Call("__init__", None, None, "", 0)

steps == Len(calls)

last == IF calls = <<>> THEN NoCall ELSE calls[Len(calls)]

\* the caller has built the table T and constructs a cleaner on it
NewWorld(T) ==
    Collect(cleaner_init(
        [heap |-> [i \in Ids |-> IF i = CallerId THEN T ELSE NoTable],
         df |-> NoRef, df_cleaned |-> NoRef,
         outlier_flags |-> EmptyDict, cleaning_stats |-> EmptyDict,
         exp_df |-> NoRef, ret |-> ValueRet("none", <<>>)],
        CallerId))

InitCleaner(T) ==
    /\ input = T
    /\ LET w == NewWorld(T)
       IN  /\ heap = w.heap
           /\ df = w.df
           /\ df_cleaned = w.df_cleaned
           /\ outlier_flags = w.outlier_flags
           /\ cleaning_stats = w.cleaning_stats
           /\ exp_df = w.exp_df
           /\ ret = w.ret
    /\ written = NoTable
    /\ calls = <<>>
    /\ pre = NoTable
    /\ again = NoTable
    /\ fs = NoFile
    /\ ldr_df = NoTable
    /\ disk = EmptyDict
    /\ countries_data = EmptyDict
    /\ combined_data = NoTable

Init == \E T \in InputTables : InitCleaner(T)

InitSeq == \E T \in SeqTables : InitCleaner(T)

\* the caller has built the table T and constructs an exporter on it; no
\* cleaner exists
InitExport ==
    \E T \in ExportTables :
       /\ input = T
       /\ LET w == Collect(exporter_init(
                      [heap |-> [i \in Ids |-> IF i = CallerId THEN T ELSE NoTable],
                       df |-> NoRef, df_cleaned |-> NoRef,
                       outlier_flags |-> EmptyDict, cleaning_stats |-> EmptyDict,
                       exp_df |-> NoRef, ret |-> ValueRet("none", <<>>)],
                      CallerId))
          IN  /\ heap = w.heap
              /\ exp_df = w.exp_df
       /\ df = NoRef
       /\ df_cleaned = NoRef
       /\ outlier_flags = EmptyDict
       /\ cleaning_stats = EmptyDict
       /\ ret = ValueRet("none", <<>>)
       /\ written = NoTable
       /\ calls = <<>>
       /\ pre = NoTable
       /\ again = NoTable
       /\ fs = NoFile
       /\ ldr_df = NoTable
       /\ disk = EmptyDict
       /\ countries_data = EmptyDict
       /\ combined_data = NoTable

\* a synthesizer is constructed; the files are as they are
InitAgg ==
    /\ disk \in Disks
    /\ countries_data = EmptyDict
    /\ combined_data = NoTable
    /\ input = NoTable
    /\ heap = [i \in Ids |-> NoTable]
    /\ df = NoRef
    /\ df_cleaned = NoRef
    /\ outlier_flags = EmptyDict
    /\ cleaning_stats = EmptyDict
    /\ exp_df = NoRef
    /\ ret = ValueRet("none", <<>>)
    /\ written = NoTable
    /\ calls = <<>>
    /\ pre = NoTable
    /\ again = NoTable
    /\ fs = NoFile
    /\ ldr_df = NoTable

\* a loader is constructed on a path; no cleaner or exporter exists
InitLoader ==
    /\ fs \in Files
    /\ ldr_df = NoTable
    /\ input = NoTable
    /\ heap = [i \in Ids |-> NoTable]
    /\ df = NoRef
    /\ df_cleaned = NoRef
    /\ outlier_flags = EmptyDict
    /\ cleaning_stats = EmptyDict
    /\ exp_df = NoRef
    /\ ret = ValueRet("none", <<>>)
    /\ written = NoTable
    /\ calls = <<>>
    /\ pre = NoTable
    /\ again = NoTable
    /\ disk = EmptyDict
    /\ countries_data = EmptyDict
    /\ combined_data = NoTable

\* ----------------------------------------------------------------- actions
Called(call, before) ==
    /\ calls' = Append(calls, call)
    /\ pre' = before

DetectMissing ==
    /\ ret' = ValueRet("dict", detect_missing_values(heap[df], DefaultThresholdPct))
    /\ Called(Call("detect_missing_values", None, None, "", 0), heap[df])
    /\ UNCHANGED <<heap, input, df, df_cleaned, outlier_flags, cleaning_stats,
                   exp_df, written, again, fs, ldr_df, agg>>

Impute(columns, method) ==
    /\ Becomes(impute_missing_values(World, columns, method))
    /\ Called(Call("impute_missing_values", columns, None, method, 0), heap[df])
    /\ UNCHANGED <<input, written, again, fs, ldr_df, agg>>

DetectOutliers(columns, z_threshold) ==
    /\ Becomes(detect_outliers(World, columns, z_threshold))
    /\ Called(Call("detect_outliers", Some(columns), None, "", z_threshold),
              heap[df])
    /\ UNCHANGED <<input, written, again, fs, ldr_df, agg>>

CapOutliers(columns, z_threshold) ==
    /\ Becomes(cap_outliers(World, columns, z_threshold))
    /\ Called(Call("cap_outliers", Some(columns), None, "", z_threshold),
              heap[df])
    /\ UNCHANGED <<input, written, again, fs, ldr_df, agg>>

Clean(numeric_columns, outlier_columns, imputation_method, z_threshold) ==
    /\ Becomes(clean(World, numeric_columns, outlier_columns,
                     imputation_method, z_threshold))
    /\ Called(Call("clean", numeric_columns, outlier_columns,
                   imputation_method, z_threshold), heap[df])
    /\ UNCHANGED <<input, written, again, fs, ldr_df, agg>>

GetCleaningReport ==
    /\ ret' = ValueRet("report", get_cleaning_report(cleaning_stats, outlier_flags))
    /\ Called(Call("get_cleaning_report", None, None, "", 0), heap[df])
    /\ UNCHANGED <<heap, input, df, df_cleaned, outlier_flags, cleaning_stats,
                   exp_df, written, again, fs, ldr_df, agg>>

\* SolarDataCleaner(t).cap_outliers(columns, z_threshold) on the table t that
\* cap_outliers(columns, z_threshold) has just returned
CapAgain ==
    /\ last.op = "cap_outliers"
    /\ ret.kind = "table"
    /\ LET w1 == cleaner_init(World, ret.id)
           w2 == cap_outliers(w1, last.cols.v, last.t)
       IN  again' = w2.heap[w2.df_cleaned]
    /\ calls' = Append(calls, [last EXCEPT !.op = "cap_outliers again"])
    /\ UNCHANGED <<heap, input, df, df_cleaned, outlier_flags, cleaning_stats,
                   exp_df, written, ret, pre, fs, ldr_df, agg>>

\* SolarDataExporter(df) on the caller's table or on the table last returned
NewExporter(src) ==
    /\ src \in Live(World)
    /\ src = CallerId \/ (ret.kind = "table" /\ src = ret.id)
    /\ Becomes(exporter_init(World, src))
    /\ Called(Call("SolarDataExporter", None, None, "", 0), heap[src])
    /\ UNCHANGED <<input, written, again, fs, ldr_df, agg>>

RemoveTempColumns(temp_columns) ==
    /\ exp_df # NoRef
    /\ Becomes(remove_temp_columns(World, temp_columns))
    /\ Called(Call("remove_temp_columns", temp_columns, None, "", 0),
              heap[exp_df])
    /\ UNCHANGED <<input, written, again, fs, ldr_df, agg>>

Export(remove_temp, temp_columns) ==
    /\ exp_df # NoRef
    /\ LET w == export(World, remove_temp, temp_columns)
       IN  /\ Becomes([w EXCEPT !.ret = ValueRet("path", <<>>)])
           /\ written' = w.heap[w.exp_df]
    /\ Called(Call("export", temp_columns, None, "", 0), heap[exp_df])
    /\ UNCHANGED <<input, again, fs, ldr_df, agg>>

Load(timestamp_col) ==
    /\ LET r == load(fs, ldr_df, timestamp_col)
       IN  /\ ldr_df' = r.df
           /\ ret' = r.ret
    /\ calls' = Append(calls, Call("load", Some(<<timestamp_col>>), None, "", 0))
    /\ UNCHANGED <<heap, input, df, df_cleaned, outlier_flags, cleaning_stats,
                   exp_df, written, pre, again, fs, agg>>

GetInfo ==
    /\ ret' = get_info(ldr_df)
    /\ calls' = Append(calls, Call("get_info", None, None, "", 0))
    /\ UNCHANGED <<heap, input, df, df_cleaned, outlier_flags, cleaning_stats,
                   exp_df, written, pre, again, fs, ldr_df, agg>>

\* pre keeps what the synthesizer held when the call started
AggregateAllCountries(file_mapping) ==
    /\ LET r == aggregate_all_countries(disk, countries_data, combined_data,
                                        file_mapping)
       IN  /\ countries_data' = r.countries_data
           /\ combined_data' = r.combined_data
           /\ ret' = r.ret
    /\ Called(Call("aggregate_all_countries", Some(file_mapping), None, "", 0),
              [countries_data |-> countries_data,
               combined_data |-> combined_data])
    /\ UNCHANGED <<heap, input, df, df_cleaned, outlier_flags, cleaning_stats,
                   exp_df, written, again, fs, ldr_df, disk>>

GetSummaryStatistics(columns) ==
    /\ ret' = get_summary_statistics(combined_data, columns)
    /\ Called(Call("get_summary_statistics", Some(columns), None, "", 0),
              [countries_data |-> countries_data,
               combined_data |-> combined_data])
    /\ UNCHANGED <<heap, input, df, df_cleaned, outlier_flags, cleaning_stats,
                   exp_df, written, again, fs, ldr_df, agg>>

\* ---------------------------------------------------------- specifications
\* One call, with any arguments, on a cleaner just constructed over any input
\* table; cap_outliers applied once more to what cap_outliers returned; and
\* cap_outliers called after detect_outliers with the same arguments, as
\* clean() calls them.
Next ==
    \/ steps = 0 /\ DetectMissing
    \/ steps = 0 /\ \E c \in OptColumns, m \in Methods : Impute(c, m)
    \/ steps = 0 /\ \E c \in ColumnLists, t \in Thresholds : DetectOutliers(c, t)
    \/ steps = 0 /\ \E c \in ColumnLists, t \in Thresholds : CapOutliers(c, t)
    \/ steps = 0 /\ \E n \in {None, Some(<<"GHI">>)},
                       o \in {None, Some(<<"DNI", "GHI">>)},
                       m \in Methods, t \in Thresholds : Clean(n, o, m, t)
    \/ steps = 0 /\ GetCleaningReport
    \/ steps = 1 /\ CapAgain
    \/ steps = 1 /\ last.op = "detect_outliers"
                 /\ CapOutliers(last.cols.v, last.t)

Spec == Init /\ [][Next]_vars

\* Any sequence of at most MaxSteps calls on one cleaner and one exporter,
\* each with the arguments of the repository's tests (threshold 1).
NextSeq ==
    \/ steps < MaxSteps /\ DetectMissing
    \/ steps < MaxSteps /\ Impute(None, "median")
    \/ steps < MaxSteps /\ DetectOutliers(<<"GHI">>, 1)
    \/ steps < MaxSteps /\ CapOutliers(<<"GHI">>, 1)
    \/ steps < MaxSteps /\ Clean(None, None, "median", 1)
    \/ steps < MaxSteps /\ GetCleaningReport
    \/ steps < MaxSteps /\ \E src \in Ids : NewExporter(src)
    \/ steps < MaxSteps /\ RemoveTempColumns(None)
    \/ steps < MaxSteps /\ Export(TRUE, None)

SpecSeq == InitSeq /\ [][NextSeq]_vars

\* remove_temp_columns() called, once or again, with the default or an
\* explicit list of names, on an exporter built on any table
NextExport ==
    \E c \in TempLists : steps < MaxSteps /\ RemoveTempColumns(c)

SpecExport == InitExport /\ [][NextExport]_vars

\* aggregate_all_countries() over any of the mappings and
\* get_summary_statistics() with its default columns, in any order
NextAgg ==
    \/ \E f \in FileMappings : steps < MaxSteps /\ AggregateAllCountries(f)
    \/ steps < MaxSteps /\ GetSummaryStatistics(<<"GHI", "DNI", "DHI">>)

SpecAgg == InitAgg /\ [][NextAgg]_vars

\* load() with either column name and get_info(), called in any order, once
\* or again, on a loader whose path names any file or none
NextLoader ==
    \/ \E c \in {"Timestamp", "time"} : steps < MaxSteps /\ Load(c)
    \/ steps < MaxSteps /\ GetInfo

SpecLoader == InitLoader /\ [][NextLoader]_vars

\* ================================================================== claims
RetTable == heap[ret.id]

OneColumn(call) == call.cols.some /\ Len(call.cols.v) = 1

\* |x - mean| > t*std, mean and std the population mean and standard
\* deviation of the non-null values of col
IsOutlier(x, col, t) == ~isna(x) /\ ExcessSign(x, Stats(col), t, 0) = 1

\* the non-null values of col have zero standard deviation
ZeroStd(col) == Stats(col).n >= 1 /\ Stats(col).QA = 0

\* y lies in [mean(col) - t*std(col), mean(col) + t*std(col)], std the sample
\* standard deviation; y is a rational or one of these two bounds
InBounds(y, col, t) ==
    IF y = Lo(col, t) \/ y = Hi(col, t) THEN ~StdIsNaN(Stats(col))
    ELSE GeLower(y, Stats(col), t) /\ LeUpper(y, Stats(col), t)

\* C1: impute_missing_values(columns=[C], method='median') on a column C with
\* at least one non-null value returns a table in which C has no null, the
\* non-null values of C are unchanged and every other column is unchanged.
C1_ImputeMedianFillsOnlyC ==
    (/\ last.op = "impute_missing_values"
     /\ last.method = "median"
     /\ OneColumn(last)
     /\ HasCol(pre, last.cols.v[1])
     /\ dropna(pre.c[last.cols.v[1]]) # <<>>)
    => LET C == last.cols.v[1]
       IN  /\ ret.kind = "table"
           /\ RetTable.cols = pre.cols
           /\ RetTable.n = pre.n
           /\ CountNa(RetTable.c[C]) = 0
           /\ \A i \in 1..pre.n :
                ~isna(pre.c[C][i]) => RetTable.c[C][i] = pre.c[C][i]
           /\ \A x \in Range(pre.cols) \ {C} : RetTable.c[x] = pre.c[x]

C1_Witness ==
    /\ last.op = "impute_missing_values"
    /\ last.method = "median"
    /\ last.cols = Some(<<"GHI">>)
    /\ CountNa(pre.c["GHI"]) > 0
    /\ Len(dropna(pre.c["GHI"])) = 2
    /\ CountNa(pre.c["DNI"]) > 0
    /\ dropna(pre.c["DNI"]) # <<>>
    /\ CountNa(RetTable.c["GHI"]) = 0
    /\ Num(1, 2) \in Range(RetTable.c["GHI"])

\* C2: detect_outliers([C], t) flags exactly the rows whose C value is
\* non-null and has |x - mean| > t*std, mean and std taken over the non-null
\* values of C, whenever these have a nonzero standard deviation -- also when
\* C contains nulls.
C2_FlagsExactlyTheOutliers ==
    (/\ last.op = "detect_outliers"
     /\ OneColumn(last)
     /\ HasCol(pre, last.cols.v[1])
     /\ Stats(pre.c[last.cols.v[1]]).n >= 1
     /\ ~ZeroStd(pre.c[last.cols.v[1]]))
    => LET C == last.cols.v[1]
       IN  \A i \in 1..pre.n :
              (RetTable.c[FlagCol][i] = Bool(TRUE))
                 <=> IsOutlier(pre.c[C][i], pre.c[C], last.t)

\* C3: a column of zero standard deviation makes detect_outliers neither fail
\* nor flag: its recorded count is 0 and every flagged row is flagged by
\* another column of the call.
C3_ZeroStdFlagsNothing ==
    last.op = "detect_outliers" =>
       \A k \in 1..Len(last.cols.v) :
          LET C == last.cols.v[k]
          IN  (HasCol(pre, C) /\ ZeroStd(pre.c[C])) =>
                 /\ ret.kind = "table"
                 /\ outlier_flags[C].count = 0
                 /\ \A i \in 1..pre.n :
                      RetTable.c[FlagCol][i] = Bool(TRUE) =>
                         \E j \in 1..Len(last.cols.v) :
                            /\ last.cols.v[j] # C
                            /\ HasCol(pre, last.cols.v[j])
                            /\ IsOutlier(pre.c[last.cols.v[j]][i],
                                         pre.c[last.cols.v[j]], last.t)

C3_Witness ==
    /\ last.op = "detect_outliers"
    /\ last.cols = Some(<<"DNI", "GHI">>)
    /\ pre.n = 3
    /\ ZeroStd(pre.c["DNI"])
    /\ CountNa(pre.c["DNI"]) = 0
    /\ outlier_flags["DNI"].count = 0
    /\ outlier_flags["GHI"].count = 1
    /\ last.t = 1

\* what cap_outliers did to column C of the table `before`, giving `after`:
\* a value below lower became lower, a value above upper became upper, any
\* other value stayed, and every non-null result lies in [lower, upper]
ClampedInto(before, after, t) ==
    \A i \in DOMAIN before :
       LET x == before[i]
           y == after[i]
       IN  IF isna(x) THEN isna(y)
           ELSE /\ BelowLower(x, Stats(before), t) => y = Lo(before, t)
                /\ AboveUpper(x, Stats(before), t) => y = Hi(before, t)
                /\ (~BelowLower(x, Stats(before), t)
                      /\ ~AboveUpper(x, Stats(before), t)) => y = x
                /\ InBounds(y, before, t)

WithinOwnBounds(col, t) ==
    \A i \in DOMAIN col :
       isna(col[i]) \/ (/\ ~BelowLower(col[i], Stats(col), t)
                        /\ ~AboveUpper(col[i], Stats(col), t))

C7_CleanIsThePipeline ==
    last.op = "clean" =>
       LET w0     == NewWorld(input)
           m      == detect_missing_values(w0.heap[w0.df], DefaultThresholdPct)
           ncols  == IF last.cols.some THEN last.cols.v ELSE Measured
           ocols  == IF last.ocols.some THEN last.ocols.v ELSE ncols
           w1     == impute_missing_values(w0, Some(ncols), last.method)
           w2     == detect_outliers(w1, ocols, last.t)
           w3     == cap_outliers(w2, ocols, last.t)
           report == get_cleaning_report(cleaning_stats, outlier_flags)
       IN  /\ ret = TableRet(df_cleaned)
           /\ RetTable = w3.heap[w3.ret.id]
           /\ heap[df] = w2.heap[w2.ret.id]
           /\ DOMAIN report = {"missing_values", "outliers", "total_outliers"}
           /\ report["missing_values"] = m
           /\ report["missing_values"].missing_by_column
                 = [x \in Range(input.cols) |-> CountNa(input.c[x])]
           /\ report["outliers"] = w3.outlier_flags
           /\ report["total_outliers"] = CountTrue(w2.heap[w2.ret.id].c[FlagCol])

C7_Witness ==
    /\ last.op = "clean"
    /\ last.cols = None
    /\ last.ocols = None
    /\ last.method = "mode"
    /\ last.t = 1
    /\ CountNa(input.c["GHI"]) = 1
    /\ cleaning_stats["missing_values"].total_missing = 2
    /\ cleaning_stats["total_outliers"] = 1
    /\ \E i \in 1..input.n : IsTerm(RetTable.c["GHI"][i])

\* the operations called so far, in order
Ops == [i \in DOMAIN calls |-> calls[i].op]

ImputeDetectCap ==
    /\ Ops = <<"impute_missing_values", "detect_outliers", "cap_outliers">>
    /\ calls[2].cols = last.cols
    /\ OneColumn(last)

C8_ReportEmptyUntilClean ==
    last.op = "get_cleaning_report" =>
       /\ ret.kind = "report"
       /\ IF \E i \in DOMAIN calls : calls[i].op = "clean"
          THEN {"missing_values", "outliers", "total_outliers"} \subseteq DOMAIN ret.v
          ELSE DOMAIN ret.v = {}

C8_Witness ==
    /\ Ops = <<"detect_outliers", "cap_outliers", "get_cleaning_report">>
    /\ DOMAIN ret.v = {}
    /\ outlier_flags["GHI"].count > 0
    /\ df_cleaned # NoRef

\* C9: after any sequence of operations of the cleaner and of the exporter
\* the table the caller passed in has the columns and the values, nulls
\* included, that it had, and no Outlier_Flag column.
C9_CallerTableUntouched ==
    /\ heap[CallerId] = input
    /\ ~HasCol(heap[CallerId], FlagCol)

C9_Witness ==
    /\ Ops = <<"clean", "SolarDataExporter", "remove_temp_columns">>
    /\ CountNa(input.c["GHI"]) > 0
    /\ CountNa(heap[df].c["GHI"]) = 0
    /\ CountTrue(heap[df].c[FlagCol]) > 0
    /\ \E i \in 1..input.n : IsTerm(heap[df_cleaned].c["GHI"][i])
    /\ ~HasCol(heap[exp_df], FlagCol)

\* C10: load() fails with FileNotFoundError when the path names no file, and
\* with the ValueError for the timestamp column when the file can be read
\* but its header lacks that column; neither call returns a table.
C10_LoadFailsWithoutTable ==
    last.op = "load" =>
       /\ ~fs.exists =>
             ret.kind = "error" /\ ret.v = "FileNotFoundError"
       /\ (fs.exists /\ ~HasCol(fs.T, last.cols.v[1])) =>
             ret.kind = "error" /\ ret.v = "ValueError: Timestamp column not found"

C10_Witness ==
    /\ Ops = <<"load", "load">>
    /\ calls[1].cols = Some(<<"time">>)
    /\ last.cols = Some(<<"Timestamp">>)
    /\ fs.exists
    /\ HasCol(fs.T, "time")
    /\ ret.kind = "error"
    /\ ret.v = "ValueError: Timestamp column not found"

\* C11: a table that load() returned has a valid date-time in every row of its
\* timestamp column; an empty or unparsable cell makes load() fail.
C11_LoadedTimestampsAreValid ==
    (last.op = "load" /\ ret.kind = "loaded") =>
       \A i \in 1..ret.v.n : ret.v.c[last.cols.v[1]][i].k = "ts"

\* the call before the last one was load(X) and it returned a table
LoadedBefore(X) ==
    /\ steps >= 2
    /\ calls[steps - 1].op = "load"
    /\ calls[steps - 1].cols = Some(<<X>>)
    /\ load(fs, NoTable, X).ret.kind = "loaded"

\* C12: get_info() right after a successful load(timestamp_col = X) reports
\* the shape, the numeric columns and the minimum and maximum of column X,
\* whatever the name X, and leaves the loader's table as load() made it.
C12_GetInfoReportsLoadedColumn ==
    \A X \in {"Timestamp", "time"} :
       (last.op = "get_info" /\ LoadedBefore(X)) =>
          /\ ret.kind = "info"
          /\ ret.v.shape = <<fs.T.n, Len(fs.T.cols)>>
          /\ ret.v.numeric_columns = <<"GHI">>
          /\ ret.v.date_range = Some(min_max(ldr_df.c[X]))
          /\ ldr_df = load(fs, NoTable, X).df

\* the names a remove_temp_columns call was given, or the default names
NamedTemp(call) ==
    Range(IF call.cols.some THEN call.cols.v ELSE DefaultTempColumns)

\* C13: remove_temp_columns never fails, whether or not the table has the
\* named (or default) columns: it returns the exporter's table, which has
\* lost exactly the named columns it had and kept every other column and
\* every row as they were; a second application with the same names would
\* change nothing.
C13_RemoveTempDropsThePresentNames ==
    last.op = "remove_temp_columns" =>
       /\ ret.kind = "table"
       /\ ret.id = exp_df
       /\ RetTable.cols = SelectSeq(pre.cols, LAMBDA x : x \notin NamedTemp(last))
       /\ RetTable.n = pre.n
       /\ \A x \in Range(RetTable.cols) : RetTable.c[x] = pre.c[x]
       /\ LET w == remove_temp_columns(World, last.cols)
          IN  w.heap[w.exp_df] = RetTable

\* the same names given twice, some in the table and some not
C13_Witness ==
    /\ Ops = <<"remove_temp_columns", "remove_temp_columns">>
    /\ calls[1].cols = Some(<<"Hour", "Tamb">>)
    /\ last.cols = Some(<<"Hour", "Tamb">>)
    /\ HasCol(input, "Hour")
    /\ HasCol(input, FlagCol)
    /\ ~HasCol(RetTable, "Hour")
    /\ RetTable = pre

\* clean() with its defaults, an exporter built on the table it returned, and
\* export() with its defaults
CleanThenExport ==
    /\ Ops = <<"clean", "SolarDataExporter", "export">>
    /\ pre = heap[df_cleaned]

\* C14: after clean() and export() of the cleaned table, both with default
\* arguments, the table written has no Outlier_Flag column and no other
\* default transient column, and it has every other column of the cleaned
\* table, in the same order and with the same cells.
C14_ExportedWithoutTransientColumns ==
    CleanThenExport =>
       /\ \A x \in Range(DefaultTempColumns) : ~HasCol(written, x)
       /\ written.cols = SelectSeq(heap[df_cleaned].cols,
                                   LAMBDA x : x \notin Range(DefaultTempColumns))
       /\ \A x \in Range(written.cols) : written.c[x] = heap[df_cleaned].c[x]
       /\ written.n = heap[df_cleaned].n

C14_Witness ==
    /\ CleanThenExport
    /\ HasCol(heap[df_cleaned], FlagCol)
    /\ CountTrue(heap[df_cleaned].c[FlagCol]) > 0
    /\ written.cols = Columns
    /\ \E i \in 1..written.n : IsTerm(written.c["GHI"][i])

\* the country names the rows of an aggregation must carry: for each item of
\* the mapping in turn, its name once for every row of its file
RECURSIVE TagsOf(_, _)
TagsOf(files, file_mapping) ==
    IF file_mapping = <<>> THEN <<>>
    ELSE [i \in 1..files[Head(file_mapping)[2]].T.n |-> Tag(Head(file_mapping)[1])]
            \o TagsOf(files, Tail(file_mapping))

\* C15: a table returned by aggregate_all_countries has as many rows as the
\* listed files together, and one Country column in which every row holds the
\* (non-null) name under which its file was listed, also when the file had a
\* Country column of its own; it is the synthesizer's combined table.
C15_RowsCarryTheirFilesName ==
    (last.op = "aggregate_all_countries" /\ ret.kind = "loaded") =>
       /\ ret.v.n = Len(TagsOf(disk, last.cols.v))
       /\ Len(SelectSeq(ret.v.cols, LAMBDA x : x = "Country")) = 1
       /\ ret.v.c["Country"] = TagsOf(disk, last.cols.v)
       /\ \A i \in 1..ret.v.n : ~isna(ret.v.c["Country"][i])
       /\ combined_data = ret.v

C15_Witness ==
    /\ last.op = "aggregate_all_countries"
    /\ last.cols.v = <<<<"B", "b.csv">>, <<"A", "a.csv">>>>
    /\ ret.kind = "loaded"
    /\ HasCol(disk["a.csv"].T, "Country")
    /\ disk["a.csv"].T.n = 2
    /\ ret.v.n = 3
    /\ ret.v.c["Country"] = <<Tag("B"), Tag("A"), Tag("A")>>

\* some path of the mapping names no file
SomePathMissing(file_mapping) ==
    \E i \in DOMAIN file_mapping : ~disk[file_mapping[i][2]].exists

\* C16: aggregate_all_countries over a mapping with a missing path, wherever
\* it stands in the mapping, fails with FileNotFoundError and leaves the
\* combined table and the per-country tables as they were before the call.
C16_FailedAggregateLeavesNothing ==
    (last.op = "aggregate_all_countries" /\ SomePathMissing(last.cols.v)) =>
       /\ ret.kind = "error"
       /\ ret.v = "FileNotFoundError"
       /\ combined_data = pre.combined_data
       /\ countries_data = pre.countries_data

\* the rows i < j of a summary are in order: the mean GHI of i is larger, or
\* the means are equal and the name of i comes first
InOrder(ri, rj) ==
    \/ RatLess(rj.stats["GHI"].mean, ri.stats["GHI"].mean)
    \/ /\ rj.stats["GHI"].mean = ri.stats["GHI"].mean
       /\ ri.Country = "A"
       /\ rj.Country = "B"

\* C17: the summary has one row for each country of the combined table, and
\* its rows are in descending order of mean GHI, countries of equal mean in
\* alphabetical order.
C17_SummaryByDescendingMean ==
    ret.kind = "summary" =>
       /\ Len(ret.v) = Cardinality(Range(combined_data.c["Country"]))
       /\ \A c \in Range(combined_data.c["Country"]) :
             \E i \in DOMAIN ret.v : ret.v[i].Country = c.p
       /\ \A i, j \in DOMAIN ret.v :
             (/\ i < j
              /\ ~isna(ret.v[i].stats["GHI"].mean)
              /\ ~isna(ret.v[j].stats["GHI"].mean)) => InOrder(ret.v[i], ret.v[j])

\* no aggregate_all_countries call before the last call returned a table
NoneAggregated ==
    \A i \in 1..(steps - 1) :
       calls[i].op = "aggregate_all_countries" =>
          aggregate_all_countries(disk, EmptyDict, NoTable,
                                  calls[i].cols.v).ret.kind = "error"

\* C18: get_summary_statistics on a synthesizer on which no
\* aggregate_all_countries call has succeeded, none made or all failed,
\* raises the "No data loaded" error and returns no table.
C18_SummaryNeedsAnAggregate ==
    (last.op = "get_summary_statistics" /\ NoneAggregated) =>
       /\ ret.kind = "error"
       /\ ret.v = "ValueError: No data loaded"

\* two failed aggregations, the first after loading a.csv, then the summary
C18_Witness ==
    /\ Ops = <<"aggregate_all_countries", "aggregate_all_countries",
               "get_summary_statistics">>
    /\ NoneAggregated
    /\ calls[1].cols.v = <<<<"A", "a.csv">>, <<"B", "b.csv">>>>
    /\ calls[2].cols.v = <<>>
    /\ "A" \in DOMAIN countries_data
    /\ ret.kind = "error"

\* the flags detect_outliers gives a new cleaner on the input for the columns
FlagsFor(columns, z_threshold) ==
    LET w == detect_outliers(NewWorld(input), columns, z_threshold)
    IN  w.heap[w.ret.id].c[FlagCol]

\* C19: after detect_outliers over a list of columns, a row is flagged exactly
\* when the mask of at least one of the listed columns holds for it, so no
\* later column takes back the flag of an earlier one, and the flags are the
\* same when the columns are listed in the reverse order.
C19_FlagsAccumulateByOr ==
    last.op = "detect_outliers" =>
       /\ \A i \in 1..pre.n :
             (RetTable.c[FlagCol][i] = Bool(TRUE)) <=>
                \E k \in DOMAIN last.cols.v :
                   /\ HasCol(pre, last.cols.v[k])
                   /\ zscore_mask(pre.c[last.cols.v[k]], last.t)[i]
       /\ \A i \in 1..pre.n : RetTable.c[FlagCol][i] \in {Bool(TRUE), Bool(FALSE)}
       /\ RetTable.c[FlagCol] = FlagsFor(Reverse(last.cols.v), last.t)

\* GHI flags the last row only and DNI, processed after it, the first row only
C19_Witness ==
    /\ last.op = "detect_outliers"
    /\ last.cols = Some(<<"GHI", "DNI">>)
    /\ pre.n = 3
    /\ zscore_mask(pre.c["GHI"], last.t) = <<FALSE, FALSE, TRUE>>
    /\ zscore_mask(pre.c["DNI"], last.t) = <<TRUE, FALSE, FALSE>>
    /\ RetTable.c[FlagCol] = <<Bool(TRUE), Bool(FALSE), Bool(TRUE)>>
    /\ outlier_flags["GHI"].count = 1
    /\ outlier_flags["DNI"].count = 1

\* C20: cap_outliers does not look at the flags and treats each column by
\* itself: a named column becomes the clip of its own values into its own
\* bounds for the threshold, every other column, Outlier_Flag included, is
\* unchanged, and a flagged row keeps its value in a named column when that
\* value lies within the column's bounds.
C20_CapIsPerColumnAndUngated ==
    last.op = "cap_outliers" =>
       /\ RetTable.cols = pre.cols
       /\ \A x \in Range(pre.cols) :
             RetTable.c[x] =
                IF x \in Range(last.cols.v)
                THEN clip(pre.c[x], Lo(pre.c[x], last.t), Hi(pre.c[x], last.t))
                ELSE pre.c[x]
       /\ \A x \in Range(pre.cols) \cap Range(last.cols.v) :
             \A i \in 1..pre.n :
                (/\ HasCol(pre, FlagCol)
                 /\ pre.c[FlagCol][i] = Bool(TRUE)
                 /\ ~isna(pre.c[x][i])
                 /\ InBounds(pre.c[x][i], pre.c[x], last.t))
                => RetTable.c[x][i] = pre.c[x][i]

\* after detect_outliers, a row flagged for its DNI keeps its GHI, which is
\* within the bounds of GHI, while the GHI of another row is capped
C20_Witness ==
    /\ Ops = <<"detect_outliers", "cap_outliers">>
    /\ last.cols = Some(<<"GHI", "DNI">>)
    /\ pre.n = 3
    /\ pre.c[FlagCol] = <<Bool(TRUE), Bool(FALSE), Bool(TRUE)>>
    /\ zscore_mask(pre.c["GHI"], last.t) = <<FALSE, FALSE, TRUE>>
    /\ InBounds(pre.c["GHI"][1], pre.c["GHI"], last.t)
    /\ RetTable.c["GHI"][1] = pre.c["GHI"][1]
    /\ IsTerm(RetTable.c["GHI"][3])
    /\ RetTable.c[FlagCol] = pre.c[FlagCol]

\* the columns clean() runs detection and capping on: outlier_columns, else
\* numeric_columns, else the numeric columns of the table clean() started on
OutlierColumnsOf(call) ==
    IF call.ocols.some THEN call.ocols.v
    ELSE IF call.cols.some THEN call.cols.v
    ELSE select_dtypes_number(pre)

\* C21: after clean(), for every outlier column and every row, the mask that
\* detection computed for the column holds for the row exactly when capping
\* changed the row's value in that column, as it would if both steps used
\* the same mean and the same standard deviation.
C21_DetectionFlagsWhatCappingChanges ==
    last.op = "clean" =>
       \A C \in Range(OutlierColumnsOf(last)) \cap Range(heap[df].cols) :
          \A r \in 1..heap[df].n :
             zscore_mask(heap[df].c[C], last.t)[r] <=>
                heap[df_cleaned].c[C][r] # heap[df].c[C][r]

\* get_cleaning_report() has been called after a clean(): the caller holds
\* the report of a finished run
ReportObtained ==
    \E i \in DOMAIN calls :
       /\ calls[i].op = "get_cleaning_report"
       /\ \E j \in 1..(i - 1) : calls[j].op = "clean"

\* C22: once a report has been obtained after clean(), no later operation on
\* the cleaner changes the keys or the values its holder reads in it.
C22_ReportIsImmutableAfterClean ==
    [][ReportObtained =>
          get_cleaning_report(cleaning_stats', outlier_flags') =
             get_cleaning_report(cleaning_stats, outlier_flags)]_vars

\* C23: the table that impute_missing_values, detect_outliers, cap_outliers
\* or remove_temp_columns returns is an object of its own: it is neither the
\* cleaner's working table nor the exporter's table, so writing to it cannot
\* reach a later operation.
C23_ReturnedTableIsANewCopy ==
    (/\ last.op \in {"impute_missing_values", "detect_outliers",
                     "cap_outliers", "remove_temp_columns"}
     /\ ret.kind = "table")
    => ret.id \notin {df, exp_df}

\* C24: when impute_missing_values is given a column that holds nulls only,
\* it fails, or the table it returns has no null left in that column.
C24_AllNullColumnIsFilledOrRefused ==
    (last.op = "impute_missing_values" /\ last.cols.some) =>
       \A C \in Range(last.cols.v) \cap Range(pre.cols) :
          dropna(pre.c[C]) = <<>> =>
             \/ ret.kind = "error"
             \/ \A r \in 1..RetTable.n : ~isna(RetTable.c[C][r])

\* of the most frequent non-null values of col, the one met first in row order
FirstMostFrequent(col) ==
    LET v      == dropna(col)
        cnt(x) == Cardinality({i \in DOMAIN v : v[i] = x})
        tied   == {i \in DOMAIN v : \A j \in DOMAIN v : cnt(v[j]) <= cnt(v[i])}
    IN  v[CHOOSE i \in tied : \A j \in tied : i <= j]

\* C25: impute_missing_values with method 'mode' writes, into every null of a
\* named column that has a non-null value, the most frequent value of the
\* column, and among several most frequent values the one met first in row
\* order.
C25_ModeTieTakesFirstInRowOrder ==
    (last.op = "impute_missing_values" /\ last.cols.some
                                       /\ last.method = "mode") =>
       \A C \in Range(last.cols.v) \cap Range(pre.cols) :
          dropna(pre.c[C]) # <<>> =>
             \A r \in 1..pre.n :
                isna(pre.c[C][r]) =>
                   RetTable.c[C][r] = FirstMostFrequent(pre.c[C])

\* load() raised because the file is missing or lacks the timestamp column
LoadRefused(r) ==
    /\ r.kind = "error"
    /\ r.v \in {"FileNotFoundError", "ValueError: Timestamp column not found"}

\* C26: when load() on a loader that holds no table fails because the file
\* is missing or the timestamp column is absent, the loader still holds no
\* table: get_info() called next fails with 'Data must be loaded first'.
C26_FailedLoadLeavesNothingLoaded ==
    [][(/\ ldr_df = NoTable
        /\ steps' = steps + 1
        /\ last'.op = "load"
        /\ LoadRefused(ret'))
       => get_info(ldr_df') =
             ValueRet("error", "ValueError: Data must be loaded first")]_vars

\* the columns the most recent detection went through: those of its list that
\* the table has
ProcessedByLast ==
    Range(IF last.op = "clean" THEN OutlierColumnsOf(last) ELSE last.cols.v)
       \cap Range(pre.cols)

\* C27: after a sequence of clean() and detect_outliers() calls, the entries
\* of the outlier report are those of the columns the most recent detection
\* processed, the number of flagged rows is the number of rows for which the
\* mask of a listed column holds, it is at least every listed count and at
\* most their sum, and after clean() it is the report's total_outliers.
C27_OutlierReportMatchesFlags ==
    (/\ steps >= 1
     /\ \A i \in DOMAIN calls : calls[i].op \in {"clean", "detect_outliers"})
    => LET listed  == DOMAIN outlier_flags
           names   == SetToSeq(listed)
           flagged == CountTrue(heap[df].c[FlagCol])
       IN  /\ listed = ProcessedByLast
           /\ flagged =
                 Cardinality({r \in 1..heap[df].n :
                    \E C \in listed : zscore_mask(heap[df].c[C], last.t)[r]})
           /\ \A C \in listed : outlier_flags[C].count <= flagged
           /\ flagged <=
                 SumSeq([i \in 1..Len(names) |-> outlier_flags[names[i]].count])
           /\ last.op = "clean" => cleaning_stats["total_outliers"] = flagged

\* the table a call returns when made on a new cleaner over the table T
OnNewCleaner(T, call) ==
    LET w == IF call.op = "impute_missing_values"
             THEN impute_missing_values(NewWorld(T), call.cols, call.method)
             ELSE detect_outliers(NewWorld(T), call.cols.v, call.t)
    IN  w.heap[w.ret.id]

\* C28: cap_outliers keeps the working table, the object and its content, and
\* returns another object, which becomes the cleaned table; an
\* impute_missing_values or detect_outliers that follows starts on the table
\* cap_outliers started on and returns what it returns for that table; and
\* cap_outliers called again with the same arguments returns an equal table.
C28_CapLeavesTheWorkingTable ==
    [][steps' = steps + 1 =>
          /\ last'.op = "cap_outliers" =>
                /\ df' = df
                /\ heap'[df'] = heap[df]
                /\ ret'.id # df'
                /\ df_cleaned' = ret'.id
          /\ (/\ last.op = "cap_outliers"
              /\ last'.op \in {"impute_missing_values", "detect_outliers"}) =>
                /\ pre' = pre
                /\ heap'[ret'.id] = OnNewCleaner(pre, last')
          /\ (/\ last.op = "cap_outliers"
              /\ last' = last) =>
                heap'[ret'.id] = heap[ret.id]]_vars

\* cap_outliers has clipped the largest GHI; detect_outliers, called next,
\* finds the value as it was and flags its row
C28_Witness ==
    /\ Ops = <<"cap_outliers", "detect_outliers">>
    /\ pre = input
    /\ IsTerm(heap[df_cleaned].c["GHI"][input.n])
    /\ RetTable.c["GHI"] = input.c["GHI"]
    /\ RetTable.c[FlagCol][input.n] = Bool(TRUE)

====
